---- MODULE Spec2Model ----
(***************************************************************************)
(* gifskeeno: a CLI that converts a video to a GIF by running ffprobe,     *)
(* ffmpeg and gifski (through a shell) one after the other.                *)
(*                                                                         *)
(* Two program variants are modelled, selected by the variable `variant`:  *)
(*   "progress" : src/unnamed/part_000 (progress bar, shared executor      *)
(*                execute_command_piped)                                   *)
(*   "plain"    : src/gifskeeno/gifskeeno.ts (no progress bar, the same    *)
(*                stdout/stderr loops inlined in each phase)               *)
(*                                                                         *)
(* JavaScript numbers are modelled as exact non-negative rationals         *)
(* <<num, den>> extended with Infinity (<<1, 0>>) and NaN (<<0, 0>>).      *)
(* JavaScript strings are TLA+ strings.                                    *)
(***************************************************************************)
EXTENDS Integers, Sequences, FiniteSets, TLC

(* ----------------------------- bounds ---------------------------------- *)
\* chunks a subprocess may write to its standard-output pipe
MaxStdoutChunks == 2
\* chunks a subprocess may write to its standard-error pipe
MaxStderrChunks == 3
\* capacity of an OS pipe, in chunks
PipeCap == 2
\* largest frame number a subprocess reports
MaxFrame == 2
\* largest number of entries ffmpeg leaves in the working directory
MaxEntries == 1
\* largest number of items in one standard-output chunk
MaxChunkLen == 2
\* largest number of streams, and of packets, in the output of ffprobe
MaxListLen == 2

(* ------------------------ program constants ---------------------------- *)
RESOLUTION_MAX_WIDTH == 1024
ffmpeg == "ffmpeg"
ffprobe == "ffprobe"
gifski == "gifski"
\* the name of the script without its extension
FILENAME == "gifskeeno"

(* ------------------------- JavaScript numbers -------------------------- *)
RECURSIVE GCD(_, _)
GCD(a, b) == IF b = 0 THEN a ELSE GCD(b, a % b)

NaN == <<0, 0>>
Infinity == <<1, 0>>
\* `undefined` where a number is expected (a sentinel that is no number)
undefined == <<-1, -1>>

\* a number in lowest terms; n/0 is Infinity, 0/0 is NaN
Num(n, d) ==
    IF d = 0 THEN (IF n = 0 THEN NaN ELSE Infinity)
    ELSE LET g == GCD(n, d) IN <<n \div g, d \div g>>

Number(n) == <<n, 1>>
isNaN(x) == x = NaN
\* a number used as a condition: 0, NaN and undefined are falsy
TruthyNum(x) == x # undefined /\ x # NaN /\ x[1] # 0

\* a / b on non-negative numbers: x/0 = Infinity, 0/0 = NaN, x/Infinity = 0
Div(a, b) == Num(a[1] * b[2], a[2] * b[1])

\* a + b on non-negative numbers
Add(a, b) ==
    IF isNaN(a) \/ isNaN(b) THEN NaN
    ELSE IF a = Infinity \/ b = Infinity THEN Infinity
    ELSE Num(a[1] * b[2] + b[1] * a[2], a[2] * b[2])

\* a <= b on non-NaN numbers
Leq(a, b) == a[1] * b[2] <= b[1] * a[2]

\* Math.min(a, b): NaN if either is NaN
MathMin(a, b) ==
    IF isNaN(a) \/ isNaN(b) THEN NaN
    ELSE IF Leq(a, b) THEN a ELSE b

\* Math.floor(a)
MathFloor(a) ==
    IF a[2] = 0 THEN a ELSE Number(a[1] \div a[2])

(* ------------------------- parsing of numbers -------------------------- *)
Digits == <<"0", "1", "2", "3", "4", "5", "6", "7", "8", "9">>
IsDigit(c) == \E i \in 1..10 : Digits[i] = c
DigitVal(c) == (CHOOSE i \in 1..10 : Digits[i] = c) - 1
CharAt(s, i) == SubSeq(s, i, i)

\* length of the longest run of digits of s that starts at position i
RECURSIVE DigitRun(_, _)
DigitRun(s, i) ==
    IF i <= Len(s) /\ IsDigit(CharAt(s, i)) THEN 1 + DigitRun(s, i + 1) ELSE 0

\* the value of the digits s[i .. i+n-1]
RECURSIVE DigitsValue(_, _, _)
DigitsValue(s, i, n) ==
    IF n = 0 THEN 0
    ELSE 10 * DigitsValue(s, i, n - 1) + DigitVal(CharAt(s, i + n - 1))

RECURSIVE Pow10(_)
Pow10(n) == IF n = 0 THEN 1 ELSE 10 * Pow10(n - 1)

\* parseInt(s) for unsigned input without leading blanks: the leading digits,
\* NaN when there are none
parseInt(s) ==
    LET n == DigitRun(s, 1)
    IN  IF n = 0 THEN NaN ELSE Number(DigitsValue(s, 1, n))

\* parseFloat(s) for unsigned input without exponent: digits, then optionally
\* a point and digits; NaN when it starts with neither
parseFloat(s) ==
    LET n == DigitRun(s, 1)
        hasPoint == n + 1 <= Len(s) /\ CharAt(s, n + 1) = "."
        f == IF hasPoint THEN DigitRun(s, n + 2) ELSE 0
    IN  IF n = 0 /\ f = 0 THEN NaN
        ELSE Num(DigitsValue(s, 1, n) * Pow10(f) + DigitsValue(s, n + 2, f),
                 Pow10(f))

(* ------------------------- optional values ----------------------------- *)
\* a value that may be `undefined`: <<>> is undefined, <<v>> is the value v
None == <<>>
Some(v) == <<v>>
\* an optional string used as a condition: undefined and "" are falsy
Truthy(o) == o # None /\ o[1] # ""

(* ------------------------------ results -------------------------------- *)
\* Result<T, E>: { data } or { error }
Data(d) == [error |-> None, data |-> d]
Err(msg) == [error |-> Some(msg), data |-> None]

(* --------------------------- get_video_info ---------------------------- *)
\* e.message of the exception JSON.parse throws (a representative text)
JsonErrorMessage == "Unexpected end of JSON input"
\* e.message of the ZodError FfProbeStreams.parse throws (a representative text)
ZodErrorMessage == "[{\"code\":\"invalid_type\",\"message\":\"Required\"}]"

\* the catch branch of the spawn of ffprobe
ProbeNotFound ==
    "command not found: '" \o ffprobe \o "'. make sure '" \o ffmpeg
       \o "' is installed and available in PATH (" \o ffprobe
       \o " is part of " \o ffmpeg \o ")."

\* mutant of get_video_info: the first packet is returned, not the last
get_video_infoFirstPacket(v, run) ==
    IF ~run.launched THEN Err(ProbeNotFound)
    ELSE IF ~run.success THEN Err(run.stderr)
    ELSE IF ~run.json_ok THEN Err(JsonErrorMessage)
    ELSE IF ~run.schema_ok THEN Err(ZodErrorMessage)
    ELSE IF run.streams = <<>>
         THEN Err("unable to retrieve resolution from stream with " \o ffprobe)
    ELSE IF v = "progress" /\ run.packets = <<>>
         THEN Err("unable to retrieve packets from stream with " \o ffprobe)
    ELSE Data(Some(IF v = "progress"
                   THEN [stream |-> Head(run.streams),
                         last_packet |-> Head(run.packets)]
                   ELSE [stream |-> [Head(run.streams) EXCEPT
                                        !.nb_read_packets = ""],
                         last_packet |-> [pts_time |-> ""]]))

\* get_video_info (get_video_resolution in the plain variant) on the outcome
\* `run` of the ffprobe subprocess.  The plain variant's schema has neither
\* packets nor nb_read_packets: parsing strips them.
get_video_info(v, run) ==
    IF ~run.launched THEN Err(ProbeNotFound)
    ELSE IF ~run.success THEN Err(run.stderr)
    ELSE IF ~run.json_ok THEN Err(JsonErrorMessage)
    ELSE IF ~run.schema_ok THEN Err(ZodErrorMessage)
    ELSE IF run.streams = <<>>
         THEN Err("unable to retrieve resolution from stream with " \o ffprobe)
    ELSE IF v = "progress" /\ run.packets = <<>>
         THEN Err("unable to retrieve packets from stream with " \o ffprobe)
    ELSE Data(Some(IF v = "progress"
                   THEN [stream |-> Head(run.streams),
                         last_packet |-> run.packets[Len(run.packets)]]
                   ELSE [stream |-> [Head(run.streams) EXCEPT
                                        !.nb_read_packets = ""],
                         last_packet |-> [pts_time |-> ""]]))

\* mutant of ResolverFailed: only the error text is tested
ResolverFailedErrorOnly(res) == Truthy(res.error)

\* `if (res_error || !info)` of the coordinator
ResolverFailed(res) == Truthy(res.error) \/ res.data = None

(* --------------------------- generate_frames --------------------------- *)
\* parseInt(info.stream.nb_read_packets)
TotalFrames(info) == parseInt(info.stream.nb_read_packets)

\* duration_str ? parseFloat(duration_str) : undefined
Duration(info) ==
    LET duration_str == info.last_packet.pts_time
    IN  IF duration_str # "" THEN parseFloat(duration_str) ELSE undefined

\* mutant of TotalGeneratedFrames: the frame-rate ratio is inverted
TotalGeneratedFramesInverted(info, fps) ==
    LET total_frames == TotalFrames(info)
        duration == Duration(info)
    IN  IF ~isNaN(total_frames) /\ TruthyNum(duration)
        THEN LET original_fps == Div(total_frames, duration)
             IN  MathFloor(Div(total_frames, Div(Number(fps), original_fps)))
        ELSE undefined

\* the expected number of extracted frames; undefined when it is not derived
TotalGeneratedFrames(info, fps) ==
    LET total_frames == TotalFrames(info)
        duration == Duration(info)
    IN  IF ~isNaN(total_frames) /\ TruthyNum(duration)
        THEN LET original_fps == Div(total_frames, duration)
             IN  MathFloor(Div(total_frames, Div(original_fps, Number(fps))))
        ELSE undefined

\* mutant of ScaleArg: a stream exactly RESOLUTION_MAX_WIDTH wide is scaled too
ScaleArgInclusive(keep_original_size, width) ==
    IF ~keep_original_size /\ width >= RESOLUTION_MAX_WIDTH
    THEN Some("scale=" \o ToString(RESOLUTION_MAX_WIDTH) \o ":-1")
    ELSE None

\* scale_arg: set only when downscaling
ScaleArg(keep_original_size, width) ==
    IF ~keep_original_size /\ width > RESOLUTION_MAX_WIDTH
    THEN Some("scale=" \o ToString(RESOLUTION_MAX_WIDTH) \o ":-1")
    ELSE None

FpsArg(fps) == Some("fps=" \o ToString(fps))

\* arr.filter(Boolean) on an array of optional strings
FilterBoolean(arr) == SelectSeq(arr, Truthy)

\* arr.join(sep) on an array of strings
RECURSIVE Join(_, _)
Join(arr, sep) ==
    IF arr = <<>> THEN ""
    ELSE IF Len(arr) = 1 THEN arr[1][1]
    ELSE arr[1][1] \o sep \o Join(Tail(arr), sep)

\* [scale_arg, fps_arg].filter(Boolean).join(",")
VfArgs(keep_original_size, width, fps) ==
    Join(FilterBoolean(<<ScaleArg(keep_original_size, width), FpsArg(fps)>>), ",")

(* ------------------------ standard-output chunks ----------------------- *)
\* A decoded chunk is a sequence of items: -1 is text that is no progress
\* token, n >= 0 is a progress token reporting frame n ("frame=n" from
\* ffmpeg, "Frame n / total" from gifski).  Every item has length one, so an
\* offset into the chunk is a number of items.
Items == {-1} \cup (0 .. MaxFrame)
Chunks == UNION {[1 .. n -> Items] : n \in 1 .. MaxChunkLen}

SetMin(S) == CHOOSE m \in S : \A k \in S : m <= k

\* data.match(/frame=(\d+)/) then parseInt(match[1]): the first token of the
\* chunk, -1 (undefined) when there is none
FirstFrame(data) ==
    LET at == {i \in 1 .. Len(data) : data[i] >= 0}
    IN  IF at = {} THEN -1 ELSE data[SetMin(at)]

\* regex_frame.exec(line) for the sticky-by-lastIndex global regex, then
\* match.pop(): the search starts at offset lastIndex; a match moves lastIndex
\* to its end, a failure resets it to 0
RegexExec(line, lastIndex) ==
    LET at == {i \in 1 .. Len(line) : i > lastIndex /\ line[i] >= 0}
    IN  IF at = {} THEN [frame |-> -1, lastIndex |-> 0]
        ELSE [frame |-> line[SetMin(at)], lastIndex |-> SetMin(at)]

Half == Num(1, 2)

\* process_stdout_chunk of generate_frames: the value rendered, None when the
\* chunk renders nothing
ExtractRender(data, total_frames) ==
    LET frame_value == FirstFrame(data)
    IN  IF frame_value > 0
        THEN Some(Div(Div(Number(frame_value), total_frames), Number(2)))
        ELSE None

\* process_stdout_chunk of create_gif_from_frames for the matched frame
EncodeRender(frame, total_frames) ==
    IF frame > 0
    THEN Some(Add(Half, MathMin(Div(Div(Number(frame), Number(total_frames)),
                                    Number(2)), Half)))
    ELSE None

(* ------------------------ execute_command_piped ------------------------ *)
\* the catch branch of the spawn in execute_command_piped
CommandNotFound(cmd) == "command not found: '" \o cmd \o "'."

\* the catch branches of the two spawns of the plain variant
PlainFfmpegNotFound ==
    "command not found: '" \o ffmpeg \o "'. make sure '" \o ffmpeg
       \o "' is installed and available from PATH."
PlainShellNotFound == ProbeNotFound

\* the message of a failed launch of `cmd` in variant v
LaunchError(v, cmd) ==
    IF v = "progress" THEN CommandNotFound(cmd)
    ELSE IF cmd = ffmpeg THEN PlainFfmpegNotFound
    ELSE PlainShellNotFound

\* mutant of ExecResult: only the exit status decides
ExecResultStatusOnly(code, error_msg) ==
    IF code # 0 THEN Err(error_msg) ELSE Data(None)

\* the result policy once the subprocess has ended
ExecResult(code, error_msg) ==
    IF code # 0 \/ Len(error_msg) > 0 THEN Err(error_msg) ELSE Data(None)

\* decode(chunk) of the k-th standard-error chunk of a subprocess
StderrText(k) == "E" \o ToString(k) \o ";"

\* error_msg += decode(chunk)
Append2(error_msg, text) == error_msg \o text

(* --------------------------- the output path --------------------------- *)
\* the position of the last occurrence of the character c in s, 0 if none
LastIndexOf(s, c) ==
    LET at == {i \in 1 .. Len(s) : CharAt(s, i) = c}
    IN  IF at = {} THEN 0 ELSE CHOOSE i \in at : \A j \in at : j <= i

\* s without its trailing separators (a path of separators only keeps one)
RECURSIVE StripTrailingSeparators(_)
StripTrailingSeparators(s) ==
    IF Len(s) > 1 /\ CharAt(s, Len(s)) = "/"
    THEN StripTrailingSeparators(SubSeq(s, 1, Len(s) - 1))
    ELSE s

\* mutant of basename: the path is used as it was given
basenameMissing(path) == path

\* basename(path) of std/path: the last segment of the path
basename(path) ==
    LET p == StripTrailingSeparators(path)
    IN  SubSeq(p, LastIndexOf(p, "/") + 1, Len(p))

\* extname(path) of std/path: the last segment from its last dot on, empty
\* when it has no dot, when its only dot is its first character, or for ".."
extname(path) ==
    LET b == basename(path)
        dot == LastIndexOf(b, ".")
    IN  IF dot <= 1 \/ b = ".." THEN "" ELSE SubSeq(b, dot, Len(b))

\* filename_with_ext.slice(0, filename_with_ext.length - extname(...).length)
VideoFilename(path) ==
    LET filename_with_ext == basename(path)
    IN  SubSeq(filename_with_ext, 1,
               Len(filename_with_ext) - Len(extname(filename_with_ext)))

\* (options.outputPath as string | undefined) ?? `${video_filename}.gif`
OutputPath(outputPath, path) ==
    IF outputPath # None THEN outputPath[1] ELSE VideoFilename(path) \o ".gif"

(* ------------------------------- state --------------------------------- *)
VARIABLES
    variant,        \* which program runs: "progress" or "plain"
    shell,          \* the command interpreter selected from Deno.build.os
    options,        \* the parsed options: [fps, originalSize, outputPath]
    video_path,     \* the argument: the path of the video
    output_path,    \* the path the GIF is written to
    pc,             \* where the action callback of the command stands
    info,           \* the resolver's data: None until get_video_info succeeds
    temp_dir,       \* the working directory: "none", "exists" or "removed"
    dir_entries,    \* the number of entries in the working directory
    alive,          \* the subprocesses that are running
    child,          \* what the piped subprocess still does: [cmd, out_todo, err_todo, code]
    stdout_pipe,    \* chunks waiting in the subprocess's standard-output pipe
    stderr_pipe,    \* chunks waiting in the subprocess's standard-error pipe
    loop,           \* which stream the executor reads: "idle", "stdout" or "stderr"
    error_msg,      \* the standard-error text accumulated so far
    stderr_chunks,  \* the decoded standard-error chunks in arrival order
    total_frames,   \* total_frames of the running phase (the chunk callback's closure)
    total_generated_frames, \* the expected number of extracted frames
    regex_lastIndex,\* lastIndex of regex_frame in create_gif_from_frames
    progress,       \* the value last given to progress.render (0 before any)
    renders,        \* how often the running phase's chunk callback has rendered
    error,          \* error of generate_frames, as destructured by the action
    gifError,       \* error of create_gif_from_frames
    runs,           \* per phase, how its subprocess went: [state, code, stderr]
    spawned,        \* every launch attempted, in order: [cmd, vf]
    clean_up_calls, \* how often clean_up_temp_dir was called
    remove_failed,  \* whether Deno.remove threw
    clean_up_log,   \* the texts written with console.error by clean_up_temp_dir
    console_error,  \* the texts written with console.error by the action
    console_log,    \* the texts written with console.log by the action
    exit_code,      \* the exit status: -1 while the process runs
    probed,         \* history: the ffprobe run get_video_info has handled
    seen            \* history: the chunks the running phase's callback has handled

vars == <<variant, shell, options, video_path, output_path, pc, info, temp_dir,
          dir_entries, alive, child, stdout_pipe, stderr_pipe, loop, error_msg,
          stderr_chunks, total_frames, total_generated_frames, regex_lastIndex,
          progress, renders, error, gifError, runs, spawned, clean_up_calls,
          remove_failed, clean_up_log, console_error, console_log, exit_code,
          probed, seen>>

inputs == <<variant, shell, options>>
execVars == <<child, stdout_pipe, stderr_pipe, loop, error_msg, stderr_chunks>>
outVars == <<console_error, console_log, exit_code>>
pathVars == <<video_path, output_path>>
ghosts == <<probed, seen>>

Phases == {"resolve", "extract", "encode"}
NotRun == [state |-> "not_run", code |-> -1, stderr |-> ""]
NoChild == [cmd |-> "", out_todo |-> 0, err_todo |-> 0, code |-> -1]

\* the shells Deno.build.os selects: windows, darwin, anything else
Shells == {"pwsh", "zsh", "bash"}

(* ------------------------------ inputs --------------------------------- *)
Stream(w, nb) == [width |-> w, height |-> 720, nb_read_packets |-> nb]
Packet(t) == [pts_time |-> t]

\* what one run of ffprobe may yield
ProbeRun(launched, success, stderr, json_ok, schema_ok, streams, packets) ==
    [launched |-> launched, success |-> success, stderr |-> stderr,
     json_ok |-> json_ok, schema_ok |-> schema_ok,
     streams |-> streams, packets |-> packets]

ProbeFailures ==
    { ProbeRun(TRUE, FALSE, e, TRUE, TRUE, <<>>, <<>>) : e \in {"", "No such file"} }
    \cup { ProbeRun(TRUE, TRUE, "", FALSE, TRUE, <<>>, <<>>),
           ProbeRun(TRUE, TRUE, "", TRUE, FALSE, <<>>, <<>>) }

ProbePayloads ==
    { ProbeRun(TRUE, TRUE, "", TRUE, TRUE, s, p) :
        s \in { <<>>, <<Stream(1280, "1")>>, <<Stream(1280, "0")>>,
                <<Stream(1280, "N/A"), Stream(640, "1")>> },
        p \in { <<>>, <<Packet("1.0")>>, <<Packet("0.5"), Packet("1.0")>> } }

ProbeRuns == ProbeFailures \cup ProbePayloads

(* ------------------------------- Init ---------------------------------- *)
\* everything the action callback has not touched yet
Untouched ==
    /\ info = None
    /\ temp_dir = "none"
    /\ dir_entries = 0
    /\ alive = {}
    /\ child = NoChild
    /\ stdout_pipe = 0
    /\ stderr_pipe = 0
    /\ loop = "idle"
    /\ error_msg = ""
    /\ stderr_chunks = <<>>
    /\ total_frames = undefined
    /\ total_generated_frames = undefined
    /\ regex_lastIndex = 0
    /\ progress = Number(0)
    /\ renders = 0
    /\ error = None
    /\ gifError = None
    /\ runs = [p \in Phases |-> NotRun]
    /\ spawned = <<>>
    /\ clean_up_calls = 0
    /\ remove_failed = FALSE
    /\ clean_up_log = <<>>
    /\ console_error = <<>>
    /\ console_log = <<>>
    /\ exit_code = -1
    /\ probed = None
    /\ seen = <<>>

\* the action callback has computed output_path and is about to call
\* get_video_info
InitWith(vs, shs, opts) ==
    /\ variant \in vs
    /\ shell \in shs
    /\ options \in opts
    /\ video_path = "clip.mp4"
    /\ output_path = OutputPath(options.outputPath, video_path)
    /\ pc = "get_video_info"
    /\ Untouched

Init ==
    InitWith({"progress", "plain"}, Shells,
             {[fps |-> 12, originalSize |-> FALSE, outputPath |-> None]})

(* ------------------------ the action callback -------------------------- *)
\* console.error(text); Deno.exit(1)
ExitWithError(text) ==
    /\ console_error' = Append(console_error, text)
    /\ exit_code' = 1
    /\ pc' = "exited"
    /\ UNCHANGED console_log

\* new Deno.Command(ffprobe).output() throws: get_video_info returns the
\* launch error and the action exits
GetVideoInfoLaunchFail ==
    /\ pc = "get_video_info"
    /\ LET res == get_video_info(variant,
                      ProbeRun(FALSE, FALSE, "", FALSE, FALSE, <<>>, <<>>))
       IN  /\ ResolverFailed(res)
           /\ ExitWithError(res.error[1])
    /\ runs' = [runs EXCEPT !["resolve"] =
                   [state |-> "launch_failed", code |-> -1, stderr |-> ""]]
    /\ spawned' = Append(spawned, [cmd |-> ffprobe, vf |-> ""])
    /\ UNCHANGED <<inputs, pathVars, ghosts, info, temp_dir, dir_entries, alive, execVars,
                   total_frames, total_generated_frames, regex_lastIndex,
                   progress, renders, error, gifError, clean_up_calls, remove_failed, clean_up_log>>

\* ffprobe is launched; output() resolves when it has ended
GetVideoInfoSpawn ==
    /\ pc = "get_video_info"
    /\ pc' = "ffprobe"
    /\ alive' = alive \cup {ffprobe}
    /\ runs' = [runs EXCEPT !["resolve"] =
                   [state |-> "running", code |-> -1, stderr |-> ""]]
    /\ spawned' = Append(spawned, [cmd |-> ffprobe, vf |-> ""])
    /\ UNCHANGED <<inputs, pathVars, ghosts, info, temp_dir, dir_entries, execVars, total_frames,
                   total_generated_frames, regex_lastIndex, progress, renders, error,
                   gifError, clean_up_calls, remove_failed, clean_up_log, outVars>>

\* ffprobe has ended as `run` tells: the rest of get_video_info and
\* `if (res_error || !info)`
GetVideoInfoEnds(run) ==
    /\ pc = "ffprobe"
    /\ LET res == get_video_info(variant, run)
       IN  /\ runs' = [runs EXCEPT !["resolve"] =
                          [state |-> "ended",
                           code |-> IF run.success THEN 0 ELSE 1,
                           stderr |-> run.stderr]]
           /\ IF ResolverFailed(res)
              THEN /\ ExitWithError(IF res.error = None THEN "undefined"
                                    ELSE res.error[1])
                   /\ UNCHANGED info
              ELSE /\ info' = res.data
                   /\ pc' = "make_temp_dir"
                   /\ UNCHANGED outVars
    /\ alive' = alive \ {ffprobe}
    /\ UNCHANGED <<inputs, pathVars, seen, temp_dir, dir_entries, execVars, total_frames,
                   total_generated_frames, regex_lastIndex, progress, renders, error,
                   gifError, spawned, clean_up_calls, remove_failed, clean_up_log>>

GetVideoInfoReturn ==
    /\ \E run \in ProbeRuns : GetVideoInfoEnds(run)
    /\ UNCHANGED probed

\* const temp_dir = await Deno.makeTempDir()
MakeTempDir ==
    /\ pc = "make_temp_dir"
    /\ temp_dir' = "exists"
    /\ dir_entries' = 0
    /\ pc' = "generate_frames"
    /\ UNCHANGED <<inputs, pathVars, ghosts, info, alive, execVars, total_frames,
                   total_generated_frames, regex_lastIndex, progress, renders, error,
                   gifError, runs, spawned, clean_up_calls, remove_failed, clean_up_log,
                   outVars>>

(* ------------------- generate_frames: plan and launch ------------------ *)
\* the locals generate_frames computes before it launches ffmpeg
Plan ==
    /\ total_frames' = IF variant = "progress" THEN TotalFrames(info[1])
                       ELSE undefined
    /\ total_generated_frames' =
           IF variant = "progress"
           THEN TotalGeneratedFrames(info[1], options.fps)
           ELSE undefined
    /\ renders' = 0

FfmpegLaunch ==
    [cmd |-> ffmpeg,
     vf |-> VfArgs(options.originalSize, info[1].stream.width, options.fps)]

\* what the action does with the result of generate_frames: `if (error)`
AfterGenerateFrames(res) ==
    /\ error' = res.error
    /\ pc' = IF Truthy(res.error) THEN "clean_up_failed" ELSE "create_gif"

\* the value generate_frames renders when the executor has returned
Halfway == Half

\* mutant of Render: the call is missing
RenderMissing(v) == UNCHANGED progress

\* progress.render(v) in the progress variant; the plain variant has no bar
Render(v) == progress' = IF variant = "progress" THEN v ELSE progress

\* the spawn of ffmpeg throws
GenerateFramesLaunchFail ==
    /\ pc = "generate_frames"
    /\ Plan
    /\ spawned' = Append(spawned, FfmpegLaunch)
    /\ runs' = [runs EXCEPT !["extract"] =
                   [state |-> "launch_failed", code |-> -1, stderr |-> ""]]
    /\ Render(Halfway)
    /\ AfterGenerateFrames(Err(LaunchError(variant, ffmpeg)))
    /\ UNCHANGED <<inputs, pathVars, ghosts, info, temp_dir, dir_entries, alive, execVars,
                   regex_lastIndex, gifError, clean_up_calls, remove_failed, clean_up_log,
                   outVars>>

\* a subprocess is launched with both streams piped; what it will write is
\* its own business
Launch(cmd) ==
    /\ alive' = alive \cup {cmd}
    /\ \E o \in 0 .. MaxStdoutChunks, e \in 0 .. MaxStderrChunks :
         child' = [cmd |-> cmd, out_todo |-> o, err_todo |-> e, code |-> -1]
    /\ stdout_pipe' = 0
    /\ stderr_pipe' = 0
    /\ loop' = "stdout"
    /\ error_msg' = ""
    /\ stderr_chunks' = <<>>

\* ffmpeg is launched
GenerateFramesSpawn ==
    /\ pc = "generate_frames"
    /\ Plan
    /\ spawned' = Append(spawned, FfmpegLaunch)
    /\ runs' = [runs EXCEPT !["extract"] =
                   [state |-> "running", code |-> -1, stderr |-> ""]]
    /\ Launch(ffmpeg)
    /\ pc' = "extracting"
    /\ UNCHANGED <<inputs, pathVars, ghosts, info, temp_dir, dir_entries, regex_lastIndex,
                   progress, error, gifError, clean_up_calls, remove_failed, clean_up_log,
                   outVars>>

(* --------------------------- the subprocess ---------------------------- *)
InPipedPhase == pc \in {"extracting", "encoding"}

\* the subprocess writes a chunk to standard-output; it blocks on a full pipe
ChildWriteStdout ==
    /\ InPipedPhase
    /\ child.cmd \in alive
    /\ child.out_todo > 0
    /\ stdout_pipe < PipeCap
    /\ stdout_pipe' = stdout_pipe + 1
    /\ child' = [child EXCEPT !.out_todo = @ - 1]
    /\ UNCHANGED <<inputs, pathVars, ghosts, pc, info, temp_dir, dir_entries, alive, stderr_pipe,
                   loop, error_msg, stderr_chunks, total_frames,
                   total_generated_frames, regex_lastIndex, progress, renders, error,
                   gifError, runs, spawned, clean_up_calls, remove_failed, clean_up_log,
                   outVars>>

\* the subprocess writes a chunk to standard-error; it blocks on a full pipe
ChildWriteStderr ==
    /\ InPipedPhase
    /\ child.cmd \in alive
    /\ child.err_todo > 0
    /\ stderr_pipe < PipeCap
    /\ stderr_pipe' = stderr_pipe + 1
    /\ child' = [child EXCEPT !.err_todo = @ - 1]
    /\ UNCHANGED <<inputs, pathVars, ghosts, pc, info, temp_dir, dir_entries, alive, stdout_pipe,
                   loop, error_msg, stderr_chunks, total_frames,
                   total_generated_frames, regex_lastIndex, progress, renders, error,
                   gifError, runs, spawned, clean_up_calls, remove_failed, clean_up_log,
                   outVars>>

\* the subprocess has written all it had to and ends with some status, which
\* closes its ends of both pipes; ffmpeg leaves its frames in the directory
ChildExit ==
    /\ InPipedPhase
    /\ child.cmd \in alive
    /\ child.out_todo = 0
    /\ child.err_todo = 0
    /\ \E code \in {0, 1} : child' = [child EXCEPT !.code = code]
    /\ alive' = alive \ {child.cmd}
    /\ IF child.cmd = ffmpeg /\ temp_dir = "exists"
       THEN dir_entries' \in 0 .. MaxEntries
       ELSE UNCHANGED dir_entries
    /\ UNCHANGED <<inputs, pathVars, ghosts, pc, info, temp_dir, stdout_pipe, stderr_pipe, loop,
                   error_msg, stderr_chunks, total_frames,
                   total_generated_frames, regex_lastIndex, progress, renders, error,
                   gifError, runs, spawned, clean_up_calls, remove_failed, clean_up_log,
                   outVars>>

(* --------------------- the executor's two read loops ------------------- *)
\* process_stdout_chunk of the running phase on the decoded chunk `data`
ProcessStdoutChunk(data) ==
    IF variant = "plain"
    THEN UNCHANGED <<progress, renders, regex_lastIndex>>
    ELSE IF pc = "extracting"
    THEN LET r == ExtractRender(data, total_frames)
         IN  /\ progress' = IF r = None THEN progress ELSE r[1]
             /\ renders' = IF r = None THEN renders ELSE renders + 1
             /\ UNCHANGED regex_lastIndex
    ELSE LET m == RegexExec(data, regex_lastIndex)
             r == EncodeRender(m.frame, total_frames[1])
         IN  /\ regex_lastIndex' = m.lastIndex
             /\ progress' = IF r = None THEN progress ELSE r[1]
             /\ renders' = IF r = None THEN renders ELSE renders + 1

\* for await (const chunk of process.stdout): one chunk, decoded as `data`
ReadStdout(data) ==
    /\ InPipedPhase
    /\ loop = "stdout"
    /\ stdout_pipe > 0
    /\ stdout_pipe' = stdout_pipe - 1
    /\ ProcessStdoutChunk(data)
    /\ UNCHANGED <<inputs, pathVars, probed, pc, info, temp_dir, dir_entries, alive, child,
                   stderr_pipe, loop, error_msg, stderr_chunks, total_frames,
                   total_generated_frames, error, gifError, runs, spawned,
                   clean_up_calls, remove_failed, clean_up_log, outVars>>

\* the plain variant's callback does not look at the chunk
ReadStdoutChunk ==
    /\ IF variant = "plain" THEN ReadStdout(<<-1>>)
       ELSE \E data \in Chunks : ReadStdout(data)
    /\ UNCHANGED seen

\* standard-output reached end-of-stream: the executor turns to standard-error
StdoutEOF ==
    /\ InPipedPhase
    /\ loop = "stdout"
    /\ stdout_pipe = 0
    /\ child.cmd \notin alive
    /\ loop' = "stderr"
    /\ error_msg' = ""
    /\ UNCHANGED <<inputs, pathVars, ghosts, pc, info, temp_dir, dir_entries, alive, child,
                   stdout_pipe, stderr_pipe, stderr_chunks, total_frames,
                   total_generated_frames, regex_lastIndex, progress, renders, error,
                   gifError, runs, spawned, clean_up_calls, remove_failed, clean_up_log,
                   outVars>>

\* for await (const chunk of process.stderr): one chunk
ReadStderrChunk ==
    /\ InPipedPhase
    /\ loop = "stderr"
    /\ stderr_pipe > 0
    /\ stderr_pipe' = stderr_pipe - 1
    /\ LET text == StderrText(Len(stderr_chunks) + 1)
       IN  /\ stderr_chunks' = Append(stderr_chunks, text)
           /\ error_msg' = Append2(error_msg, text)
    /\ UNCHANGED <<inputs, pathVars, ghosts, pc, info, temp_dir, dir_entries, alive, child,
                   stdout_pipe, loop, total_frames, total_generated_frames,
                   regex_lastIndex, progress, renders, error, gifError, runs, spawned,
                   clean_up_calls, remove_failed, clean_up_log, outVars>>

\* standard-error reached end-of-stream and process.status has resolved
ExecutorDone ==
    /\ InPipedPhase
    /\ loop = "stderr"
    /\ stderr_pipe = 0
    /\ child.cmd \notin alive

\* the executor's state once its caller has the result
ExecutorReset ==
    /\ child' = NoChild
    /\ loop' = "idle"
    /\ UNCHANGED <<stdout_pipe, stderr_pipe, error_msg, stderr_chunks>>

\* the executor returns to generate_frames, which renders the halfway mark
\* and returns to the action
GenerateFramesReturn ==
    /\ pc = "extracting"
    /\ ExecutorDone
    /\ runs' = [runs EXCEPT !["extract"] =
                   [state |-> "ended", code |-> child.code, stderr |-> error_msg]]
    /\ Render(Halfway)
    /\ AfterGenerateFrames(ExecResult(child.code, error_msg))
    /\ ExecutorReset
    /\ seen' = <<>>
    /\ UNCHANGED <<inputs, pathVars, probed, info, temp_dir, dir_entries, alive, total_frames,
                   total_generated_frames, regex_lastIndex, renders, gifError,
                   spawned, clean_up_calls, remove_failed, clean_up_log, outVars>>

(* ----------------------- create_gif_from_frames ------------------------ *)
\* the value create_gif_from_frames renders when the executor has returned
Complete == Number(1)

\* [...Deno.readDirSync(temp_dir)].filter(Boolean).length, and the fresh
\* regex_frame, in the progress variant
CountFrames ==
    /\ total_frames' = IF variant = "progress" THEN Number(dir_entries)
                       ELSE total_frames
    /\ regex_lastIndex' = 0
    /\ renders' = 0

\* what the action does with the result of create_gif_from_frames
AfterCreateGif(res) ==
    /\ gifError' = res.error
    /\ pc' = "clean_up"

\* the spawn of the shell throws
CreateGifLaunchFail ==
    /\ pc = "create_gif"
    /\ CountFrames
    /\ spawned' = Append(spawned, [cmd |-> shell, vf |-> ""])
    /\ runs' = [runs EXCEPT !["encode"] =
                   [state |-> "launch_failed", code |-> -1, stderr |-> ""]]
    /\ Render(Complete)
    /\ AfterCreateGif(Err(LaunchError(variant, shell)))
    /\ UNCHANGED <<inputs, pathVars, ghosts, info, temp_dir, dir_entries, alive, execVars,
                   total_generated_frames, error, clean_up_calls,
                   remove_failed,
                   clean_up_log, outVars>>

\* the shell that runs gifski is launched
CreateGifSpawn ==
    /\ pc = "create_gif"
    /\ CountFrames
    /\ spawned' = Append(spawned, [cmd |-> shell, vf |-> ""])
    /\ runs' = [runs EXCEPT !["encode"] =
                   [state |-> "running", code |-> -1, stderr |-> ""]]
    /\ Launch(shell)
    /\ pc' = "encoding"
    /\ UNCHANGED <<inputs, pathVars, ghosts, info, temp_dir, dir_entries, total_generated_frames,
                   progress, error, gifError, clean_up_calls, remove_failed, clean_up_log,
                   outVars>>

\* the executor returns to create_gif_from_frames, which renders completion
\* and returns to the action
CreateGifReturn ==
    /\ pc = "encoding"
    /\ ExecutorDone
    /\ runs' = [runs EXCEPT !["encode"] =
                   [state |-> "ended", code |-> child.code, stderr |-> error_msg]]
    /\ Render(Complete)
    /\ AfterCreateGif(ExecResult(child.code, error_msg))
    /\ ExecutorReset
    /\ seen' = <<>>
    /\ UNCHANGED <<inputs, pathVars, probed, info, temp_dir, dir_entries, alive, total_frames,
                   total_generated_frames, regex_lastIndex, renders, error,
                   spawned, clean_up_calls, remove_failed, clean_up_log, outVars>>

(* --------------------------- clean_up_temp_dir ------------------------- *)
\* mutant of Remove: the removal is not awaited and the process exits first
RemoveNotAwaited(ok, dir) == dir

\* the working directory after Deno.remove(temp_dir, { recursive: true }),
\* which removes it (ok) or throws and leaves it
Remove(ok, dir) == IF ok THEN "removed" ELSE dir

\* mutant of CleanUpThrows: the exception of Deno.remove is not caught
CleanUpRethrows(ok) == ~ok

\* whether clean_up_temp_dir throws to the action when the removal went
\* well (ok) or threw: the catch block handles every exception
CleanUpThrows(ok) == FALSE

\* what the catch block prints (the directory and the exception stand for
\* themselves)
CleanUpMessage == "unable to clean up temp_dir: 'temp_dir'. error: e"

\* clean_up_temp_dir: the removal, whose failure is caught and logged
clean_up_temp_dir(ok) ==
    /\ temp_dir' = Remove(ok, temp_dir)
    /\ remove_failed' = (remove_failed \/ ~ok)
    /\ clean_up_log' = IF ok \/ CleanUpThrows(ok) THEN clean_up_log
                       ELSE Append(clean_up_log, CleanUpMessage)
    /\ dir_entries' = IF ok THEN 0 ELSE dir_entries
    /\ clean_up_calls' = clean_up_calls + 1

\* an exception reaches the top of the action: the runtime prints it and
\* the process ends with status 1
Uncaught ==
    /\ console_error' = Append(console_error, "error: Uncaught (in promise)")
    /\ exit_code' = 1
    /\ pc' = "exited"
    /\ UNCHANGED console_log

\* mutant of CleanUpFailed: Deno.exit(1) is missing and the action goes on
\* with the encoder
CleanUpFailedNoExit ==
    /\ pc = "clean_up_failed"
    /\ \E ok \in BOOLEAN : clean_up_temp_dir(ok)
    /\ console_error' = Append(console_error, error[1])
    /\ pc' = "create_gif"
    /\ UNCHANGED <<inputs, pathVars, ghosts, info, alive, execVars, total_frames,
                   total_generated_frames, regex_lastIndex, progress, renders, error,
                   gifError, runs, spawned, console_log, exit_code>>

\* generate_frames failed: clean up, print the error, exit with status 1
CleanUpFailed ==
    /\ pc = "clean_up_failed"
    /\ \E ok \in BOOLEAN :
         /\ clean_up_temp_dir(ok)
         /\ IF CleanUpThrows(ok) THEN Uncaught ELSE ExitWithError(error[1])
    /\ UNCHANGED <<inputs, pathVars, ghosts, info, alive, execVars, total_frames,
                   total_generated_frames, regex_lastIndex, progress, renders, error,
                   gifError, runs, spawned>>

\* the text the action logs when it has succeeded:
\* `${FILENAME} created ${output_path}`
Created == FILENAME \o " created " \o output_path

\* create_gif_from_frames has returned: clean up, then `if (gifError)`
CleanUp ==
    /\ pc = "clean_up"
    /\ \E ok \in BOOLEAN :
         /\ clean_up_temp_dir(ok)
         /\ IF CleanUpThrows(ok) THEN Uncaught
            ELSE IF Truthy(gifError)
            THEN ExitWithError(gifError[1])
            ELSE /\ console_log' = IF variant = "progress"
                                   THEN Append(console_log, Created)
                                   ELSE console_log
                 /\ exit_code' = 0
                 /\ pc' = "exited"
                 /\ UNCHANGED console_error
    /\ UNCHANGED <<inputs, pathVars, ghosts, info, alive, execVars, total_frames,
                   total_generated_frames, regex_lastIndex, progress, renders, error,
                   gifError, runs, spawned>>

(* ------------------------------- Next ---------------------------------- *)
Next ==
    \/ GetVideoInfoLaunchFail
    \/ GetVideoInfoSpawn
    \/ GetVideoInfoReturn
    \/ MakeTempDir
    \/ GenerateFramesLaunchFail
    \/ GenerateFramesSpawn
    \/ ChildWriteStdout
    \/ ChildWriteStderr
    \/ ChildExit
    \/ ReadStdoutChunk
    \/ StdoutEOF
    \/ ReadStderrChunk
    \/ GenerateFramesReturn
    \/ CreateGifLaunchFail
    \/ CreateGifSpawn
    \/ CreateGifReturn
    \/ CleanUpFailed
    \/ CleanUp

Spec == Init /\ [][Next]_vars

(* ---------------- the planning of generate_frames alone ---------------- *)
\* the state in which generate_frames is called, for a wider range of
\* metadata and options than Init's
PlanInfos(v) ==
    IF v = "progress"
    THEN { Some([stream |-> Stream(w, nb), last_packet |-> Packet(t)]) :
             w \in {0, 1023, 1024, 1025, 2048},
             nb \in {"300", "7", "0", "N/A"},
             t \in {"10.0", "2.5", "0.000000", "", "N/A"} }
    ELSE { Some([stream |-> Stream(w, ""), last_packet |-> Packet("")]) :
             w \in {0, 1023, 1024, 1025, 2048} }

InitPlan ==
    /\ variant \in {"progress", "plain"}
    /\ shell = "bash"
    /\ options \in [fps : {1, 12, 30}, originalSize : BOOLEAN, outputPath : {None}]
    /\ video_path = "clip.mp4"
    /\ output_path = OutputPath(options.outputPath, video_path)
    /\ pc = "generate_frames"
    /\ info \in PlanInfos(variant)
    /\ temp_dir = "exists"
    /\ dir_entries = 0
    /\ alive = {}
    /\ child = NoChild
    /\ stdout_pipe = 0
    /\ stderr_pipe = 0
    /\ loop = "idle"
    /\ error_msg = ""
    /\ stderr_chunks = <<>>
    /\ total_frames = undefined
    /\ total_generated_frames = undefined
    /\ regex_lastIndex = 0
    /\ progress = Number(0)
    /\ renders = 0
    /\ error = None
    /\ gifError = None
    /\ runs = [p \in Phases |->
                 IF p = "resolve" THEN [state |-> "ended", code |-> 0, stderr |-> ""]
                 ELSE NotRun]
    /\ spawned = <<[cmd |-> ffprobe, vf |-> ""]>>
    /\ clean_up_calls = 0
    /\ remove_failed = FALSE
    /\ clean_up_log = <<>>
    /\ console_error = <<>>
    /\ console_log = <<>>
    /\ exit_code = -1
    /\ probed = None
    /\ seen = <<>>

NextPlan ==
    \/ GenerateFramesLaunchFail
    \/ GenerateFramesSpawn

SpecPlan == InitPlan /\ [][NextPlan]_vars

(* ------------- the program with its inputs kept in a history ----------- *)
\* ReadStdoutChunk of the progress variant, the chunk kept in `seen`
ObserveStdoutChunk ==
    \E data \in Chunks :
       /\ ReadStdout(data)
       /\ seen' = Append(seen, data)

InitObs ==
    InitWith({"progress"}, {"bash"},
             {[fps |-> 12, originalSize |-> FALSE, outputPath |-> None]})

NextObs ==
    \/ GetVideoInfoLaunchFail
    \/ GetVideoInfoSpawn
    \/ GetVideoInfoReturn
    \/ MakeTempDir
    \/ GenerateFramesLaunchFail
    \/ GenerateFramesSpawn
    \/ ChildWriteStdout
    \/ ChildWriteStderr
    \/ ChildExit
    \/ ObserveStdoutChunk
    \/ StdoutEOF
    \/ ReadStderrChunk
    \/ GenerateFramesReturn
    \/ CreateGifLaunchFail
    \/ CreateGifSpawn
    \/ CreateGifReturn
    \/ CleanUpFailed
    \/ CleanUp

SpecObs == InitObs /\ [][NextObs]_vars

(* ------------------------ get_video_info alone ------------------------- *)
\* the lists of at most MaxListLen elements of S
ListsOf(S) == UNION {[1 .. n -> S] : n \in 0 .. MaxListLen}

\* every failure of ffprobe, and every schema-valid payload with short lists
ProbeRunsWide ==
    ProbeFailures
    \cup { ProbeRun(TRUE, TRUE, "", TRUE, TRUE, s, p) :
             s \in ListsOf({Stream(1280, "300"), Stream(640, "7"),
                            Stream(1920, "N/A")}),
             p \in ListsOf({Packet("10.0"), Packet("2.5")}) }

\* GetVideoInfoReturn on the wider range of outputs, the output kept in
\* `probed`
ObserveGetVideoInfoReturn ==
    \E run \in ProbeRunsWide :
       /\ GetVideoInfoEnds(run)
       /\ probed' = Some(run)

InitProbe ==
    InitWith({"progress", "plain"}, {"bash"},
             {[fps |-> 12, originalSize |-> FALSE, outputPath |-> None]})

NextProbe ==
    \/ GetVideoInfoLaunchFail
    \/ GetVideoInfoSpawn
    \/ ObserveGetVideoInfoReturn

SpecProbe == InitProbe /\ [][NextProbe]_vars

(* --------------------- the output path alone --------------------------- *)
\* directories the argument may point into
Dirs == {"", "./", "../", "/", "videos/", "my.videos/", "/home/u/", "a/b.c/"}

\* file names the argument may end with
FileNames == {"clip.mp4", "clip", "clip.tar.gz", ".hidden", ".hidden.mov",
              "clip.", "screencast-01.webm", "a b.MP4"}

VideoPaths == {d \o n : d \in Dirs, n \in FileNames}

\* values of --output-path: absent, or a path
OutputPathOptions == {None, Some("out.gif"), Some("gifs/clip.mp4")}

\* the action callback is entered: output_path is not computed yet
InitOut ==
    /\ variant \in {"progress", "plain"}
    /\ shell = "bash"
    /\ options \in [fps : {12}, originalSize : {FALSE},
                     outputPath : OutputPathOptions]
    /\ video_path \in VideoPaths
    /\ output_path = ""
    /\ pc = "start"
    /\ Untouched

\* the first statements of the action callback
ResolveOutputPath ==
    /\ pc = "start"
    /\ output_path' = OutputPath(options.outputPath, video_path)
    /\ pc' = "get_video_info"
    /\ UNCHANGED <<inputs, video_path, ghosts, info, temp_dir, dir_entries, alive,
                   execVars, total_frames, total_generated_frames,
                   regex_lastIndex, progress, renders, error, gifError, runs,
                   spawned, clean_up_calls, remove_failed, clean_up_log,
                   outVars>>

NextOut == ResolveOutputPath

SpecOut == InitOut /\ [][NextOut]_vars

(* ============================== claims ================================= *)
Exited == exit_code # -1
Last(seq) == seq[Len(seq)]

\* phase p was attempted and failed: its command could not be launched, or
\* it ended with a non-zero status or with standard-error text
PhaseFailed(p) ==
    \/ runs[p].state = "launch_failed"
    \/ /\ runs[p].state = "ended"
       /\ (runs[p].code # 0 \/ runs[p].stderr # "")

\* phase p was launched and ended with status 0 and no standard-error text
PhaseSucceeded(p) ==
    runs[p] = [state |-> "ended", code |-> 0, stderr |-> ""]

\* get_video_info has returned a failure
ResolveFailed ==
    /\ runs["resolve"].state \in {"launch_failed", "ended"}
    /\ info = None

\* C1: in every run that created the working directory and in which the
\* removal did not fail, the working directory no longer exists once the
\* process has exited, whatever way the run ended.
C1_DirectoryGoneAtExit ==
    (Exited /\ temp_dir # "none" /\ ~remove_failed) => temp_dir = "removed"

\* C1 witness: a run that ended in an encoding failure with the directory
\* removed.
C1_Witness ==
    /\ Exited
    /\ exit_code = 1
    /\ Truthy(gifError)
    /\ ~remove_failed
    /\ temp_dir = "removed"

\* C2: the process exits with status 1 whenever a phase failed (resolver
\* failure; in extraction or encoding a launch failure, a non-zero status or
\* standard-error text), and it exits with status 0, reporting the output
\* path, only when resolver, extraction and encoding all succeeded.
C2_ExitStatusReflectsFailure ==
    Exited =>
      /\ (ResolveFailed \/ PhaseFailed("extract") \/ PhaseFailed("encode"))
            => exit_code = 1
      /\ (exit_code = 0 \/ console_log # <<>>)
            => /\ info # None
               /\ PhaseSucceeded("extract")
               /\ PhaseSucceeded("encode")

\* the concatenation of the chunks in arrival order
RECURSIVE Concat(_)
Concat(chunks) ==
    IF chunks = <<>> THEN "" ELSE Head(chunks) \o Concat(Tail(chunks))

\* the executor has just returned the result `err` for phase p
Returned(p, err) ==
    /\ runs[p].state = "ended"
    /\ (err # None) <=> (runs[p].code # 0 \/ stderr_chunks # <<>>)
    /\ err # None => err[1] = Concat(stderr_chunks)

\* C3: once the subprocess was launched, the executor returns a failure if
\* and only if the exit status is non-zero or some standard-error chunk was
\* captured, and the error text is then the concatenation of the
\* standard-error chunks in arrival order.
C3_ResultPolicy ==
    /\ (runs["extract"].state = "ended" /\ pc \in {"clean_up_failed", "create_gif"})
          => Returned("extract", error)
    /\ (runs["encode"].state = "ended" /\ pc = "clean_up")
          => Returned("encode", gifError)

\* C3 witness: ffmpeg ended with status 0 after two standard-error chunks and
\* the executor returned their concatenation as a failure.
C3_Witness ==
    /\ pc = "clean_up_failed"
    /\ runs["extract"].state = "ended"
    /\ runs["extract"].code = 0
    /\ Len(stderr_chunks) = 2
    /\ error = Some("E1;E2;")

\* a launch of cmd was attempted
Attempted(cmd) == \E i \in 1 .. Len(spawned) : spawned[i].cmd = cmd

\* C4: when get_video_info has failed, no working directory is ever created
\* and neither the frame extractor nor the encoder is ever started.
C4_NothingAllocatedBeforeResolve ==
    info = None =>
      /\ temp_dir = "none"
      /\ ~Attempted(ffmpeg)
      /\ ~Attempted(shell)
      /\ runs["extract"] = NotRun
      /\ runs["encode"] = NotRun
      /\ pc \in {"get_video_info", "ffprobe", "exited"}

\* C4 witness: the resolver failed on a payload without packet entries (a
\* failure whose message is not empty) and the process exited without a
\* working directory.
C4_Witness ==
    /\ Exited
    /\ info = None
    /\ runs["resolve"] = [state |-> "ended", code |-> 0, stderr |-> ""]
    /\ console_error = <<"unable to retrieve packets from stream with ffprobe">>
    /\ temp_dir = "none"

\* C5: the encoder is started only if frame extraction succeeded (launched,
\* status 0, no standard-error text), frame extraction is started only if
\* the resolver succeeded, and at most one subprocess runs at any time.
C5_ShortCircuit ==
    /\ runs["encode"].state # "not_run" => PhaseSucceeded("extract")
    /\ runs["extract"].state # "not_run" => info # None
    /\ Cardinality(alive) <= 1

\* phase p is over: its launch failed or its function has returned
PhaseOver(p) == runs[p].state \in {"launch_failed", "ended"}

\* C6: in the progress variant, whatever the chunks reported, the progress
\* value is exactly 1/2 from the return of generate_frames (success or
\* failure) until the encoder phase starts, and exactly 1 from the return of
\* create_gif_from_frames on: nothing is rendered after that.
C6_PhaseBoundaries ==
    variant = "progress" =>
      /\ (PhaseOver("extract") /\ runs["encode"].state = "not_run")
            => progress = Num(1, 2)
      /\ PhaseOver("encode") => progress = Number(1)

\* C6 witness: the encoder phase is over after its chunk callback rendered
\* twice, and the progress value is 1.
C6_Witness ==
    /\ variant = "progress"
    /\ runs["encode"].state = "ended"
    /\ renders = 2
    /\ progress = Number(1)

\* x is a number of the interval [lo, hi]
Within(x, lo, hi) == x[2] > 0 /\ Leq(lo, x) /\ Leq(x, hi)

\* C7: the progress value is always in [0, 1]; while frames are extracted it
\* is in [0, 1/2] and while the GIF is encoded it is in [1/2, 1].
C7_ProgressInRange ==
    variant = "progress" =>
      /\ Within(progress, Number(0), Number(1))
      /\ pc = "extracting" => Within(progress, Number(0), Num(1, 2))
      /\ pc = "encoding" => Within(progress, Num(1, 2), Number(1))

\* the video-filter chain ffmpeg was launched with
LaunchedVf == spawned[Len(spawned)].vf
FfmpegLaunched == spawned # <<>> /\ Last(spawned).cmd = ffmpeg

\* C8: the video-filter chain given to ffmpeg is "scale=1024:-1,fps=<fps>"
\* if the stream is wider than 1024 and --original-size is absent, and
\* "fps=<fps>" otherwise.
C8_FilterChain ==
    FfmpegLaunched =>
      LaunchedVf =
        IF info[1].stream.width > 1024 /\ ~options.originalSize
        THEN "scale=1024:-1,fps=" \o ToString(options.fps)
        ELSE "fps=" \o ToString(options.fps)

\* C8 witness: a stream of width 1025 without --original-size is scaled.
C8_Witness ==
    /\ FfmpegLaunched
    /\ info[1].stream.width = 1025
    /\ ~options.originalSize
    /\ options.fps = 12
    /\ LaunchedVf = "scale=1024:-1,fps=12"

\* generate_frames of the progress variant has computed its plan
Planned == variant = "progress" /\ runs["extract"].state # "not_run"

\* floor(total_packets / ((total_packets / last_packet_timestamp) / fps))
ExpectedFrames(tp, ts, fps) ==
    MathFloor(Div(tp, Div(Div(tp, ts), Number(fps))))

\* C9 as claimed: whenever total_packets and last_packet_timestamp are both
\* present and numeric the expected count is the formula's value, and it is
\* undefined otherwise.
C9_Original ==
    Planned =>
      LET nb == info[1].stream.nb_read_packets
          pts == info[1].last_packet.pts_time
      IN  total_generated_frames =
            IF ~isNaN(parseInt(nb)) /\ pts # "" /\ ~isNaN(parseFloat(pts))
            THEN ExpectedFrames(parseInt(nb), parseFloat(pts), options.fps)
            ELSE undefined

\* C9 amended: when total_packets is numeric and last_packet_timestamp is
\* numeric and not zero, the expected count is the formula's value (120 for
\* 300, "10.0" and 12); when total_packets is not numeric or the timestamp
\* is empty, not numeric or zero, it is undefined.
C9_ExpectedFrames ==
    Planned =>
      LET nb == info[1].stream.nb_read_packets
          pts == info[1].last_packet.pts_time
      IN  /\ total_generated_frames =
               IF /\ ~isNaN(parseInt(nb))
                  /\ pts # ""
                  /\ ~isNaN(parseFloat(pts))
                  /\ parseFloat(pts) # Number(0)
               THEN ExpectedFrames(parseInt(nb), parseFloat(pts), options.fps)
               ELSE undefined
          /\ (nb = "300" /\ pts = "10.0" /\ options.fps = 12)
                => total_generated_frames = Number(120)

\* C9 witness: 300 packets, last timestamp "10.0", 12 fps: 120 frames.
C9_Witness ==
    /\ Planned
    /\ info[1].stream.nb_read_packets = "300"
    /\ info[1].last_packet.pts_time = "10.0"
    /\ options.fps = 12
    /\ total_generated_frames = Number(120)

StartsWith(text, prefix) ==
    Len(text) >= Len(prefix) /\ SubSeq(text, 1, Len(prefix)) = prefix

\* the executable phase p launches
PhaseCommand(p) ==
    IF p = "resolve" THEN ffprobe ELSE IF p = "extract" THEN ffmpeg ELSE shell

\* the error the action holds for phase p once p has failed
PhaseError(p) ==
    IF p = "resolve" THEN Last(console_error)
    ELSE IF p = "extract" THEN error[1]
    ELSE gifError[1]

\* C10: when the executable of a phase cannot be launched, the error of the
\* phase starts with "command not found: '<command>'." where <command> is
\* the executable that could not be launched, in both variants.
C10_LaunchErrorNamesCommand ==
    \A p \in Phases :
      runs[p].state = "launch_failed" =>
        StartsWith(PhaseError(p),
                   "command not found: '" \o PhaseCommand(p) \o "'.")
\* the exit status and the texts the action prints at its end, as the
\* results of the two phases alone determine them
OutcomeOf(err, gifErr) ==
    IF Truthy(err)
    THEN [exit_code |-> 1, console_error |-> <<err[1]>>, console_log |-> <<>>]
    ELSE IF Truthy(gifErr)
    THEN [exit_code |-> 1, console_error |-> <<gifErr[1]>>, console_log |-> <<>>]
    ELSE [exit_code |-> 0, console_error |-> <<>>,
          console_log |-> IF variant = "progress" THEN <<Created>> ELSE <<>>]

\* C11: a removal that fails is caught and logged by clean_up_temp_dir and
\* never changes the outcome: once the process has exited after a clean-up,
\* its exit status, the error it reported and the output path it reported are
\* those the results of the two phases determine, whether the removal
\* succeeded or failed; the failure shows in clean_up_temp_dir's log only
C11_CleanupNeverChangesOutcome ==
    /\ remove_failed <=> clean_up_log # <<>>
    /\ Exited /\ clean_up_calls > 0 =>
         LET outcome == OutcomeOf(error, gifError)
         IN  /\ exit_code = outcome.exit_code
             /\ console_error = outcome.console_error
             /\ console_log = outcome.console_log

\* a conversion succeeded and reported its output path although the removal
\* of the working directory failed
C11_Witness ==
    /\ Exited
    /\ remove_failed
    /\ clean_up_log = <<CleanUpMessage>>
    /\ exit_code = 0
    /\ console_log = <<Created>>
    /\ temp_dir = "exists"


\* the file names with their final extension removed
Stem ==
    [n \in FileNames |->
       CASE n = "clip.mp4" -> "clip"
         [] n = "clip" -> "clip"
         [] n = "clip.tar.gz" -> "clip.tar"
         [] n = ".hidden" -> ".hidden"
         [] n = ".hidden.mov" -> ".hidden"
         [] n = "clip." -> "clip"
         [] n = "screencast-01.webm" -> "screencast-01"
         [] n = "a b.MP4" -> "a b"]

\* C12: without the output-path option the output path is the base name of
\* the input path with its final extension removed and ".gif" appended, with
\* no directory part (so it lies in the current working directory), whatever
\* directory the input path points into; with the option it is exactly the
\* option's value
C12_OutputPath ==
    pc # "start" =>
      IF options.outputPath # None
      THEN output_path = options.outputPath[1]
      ELSE \A d \in Dirs, n \in FileNames :
             video_path = d \o n =>
               /\ output_path = Stem[n] \o ".gif"
               /\ LastIndexOf(output_path, "/") = 0

\* a video in another directory is converted to a GIF named after it in the
\* current working directory
C12_Witness ==
    /\ pc # "start"
    /\ options.outputPath = None
    /\ video_path = "/home/u/clip.mp4"
    /\ output_path = "clip.gif"


\* the step is a read of a standard-output chunk by the callback of phase `at`
ChunkRead(at) == pc = at /\ Len(seen') = Len(seen) + 1
\* the callback rendered in this step
Wrote == renders' = renders + 1
\* the frame numbers of the tokens of a chunk
TokensOf(data) == {data[i] : i \in 1 .. Len(data)} \ {-1}
\* the frame number of the last token of a chunk that has one
LastFrame(data) ==
    data[CHOOSE i \in 1 .. Len(data) :
           data[i] >= 0 /\ \A j \in 1 .. Len(data) : data[j] >= 0 => j <= i]

\* 0.5 + min(N / expected_total / 2, 0.5)
EncodingValue(N, expected_total) ==
    Add(Half, MathMin(Div(Div(Number(N), expected_total), Number(2)), Half))

\* C13: during extraction a chunk updates the progress only if it contains a
\* frame=N token and the expected number of extracted frames is known and
\* not zero, and the value written is then min(N / expected_total / 2, 0.5)
\* with expected_total that expected number (not the number of packets of
\* the source); any other chunk writes nothing
C13_ExtractionProgress ==
    [][ChunkRead("extracting") =>
         LET data == Last(seen')
         IN  IF Wrote
             THEN /\ TruthyNum(total_generated_frames)
                  /\ \E N \in TokensOf(data) :
                       progress' = MathMin(Div(Div(Number(N),
                                                   total_generated_frames),
                                               Number(2)), Half)
             ELSE progress' = progress]_vars

\* C14: during encoding every chunk that contains a "Frame N / total" token
\* sets the progress to 0.5 + min(N / expected_total / 2, 0.5), with
\* expected_total the number of entries of the working directory, counted
\* once when create_gif_from_frames is called
C14_EncodingProgress ==
    [][ChunkRead("encoding") /\ TokensOf(Last(seen')) # {} =>
         /\ Wrote
         /\ \E N \in TokensOf(Last(seen')) :
              progress' = EncodingValue(N, Number(dir_entries))]_vars

\* C15: when a chunk holds several tokens, the value written is the one
\* computed from the last token of the chunk, in both phases (computed as
\* the callback of the phase computes it from a frame number)
C15_LastTokenWins ==
    [][(ChunkRead("extracting") \/ ChunkRead("encoding")) /\ Wrote =>
         LET N == LastFrame(Last(seen'))
         IN  progress' = IF pc = "extracting"
                         THEN Div(Div(Number(N), total_frames), Number(2))
                         ELSE EncodingValue(N, total_frames)]_vars

\* the frame numbers reported in the chunks, in order
RECURSIVE Reported(_)
Reported(chunks) ==
    IF chunks = <<>> THEN <<>>
    ELSE SelectSeq(Head(chunks), LAMBDA x : x >= 0) \o Reported(Tail(chunks))

NonDecreasing(frames) ==
    \A i, j \in 1 .. Len(frames) : i <= j => frames[i] <= frames[j]

\* a <= b as JavaScript compares numbers: false when either is NaN
JsLeq(a, b) == ~isNaN(a) /\ ~isNaN(b) /\ Leq(a, b)

\* C16: over a whole run no write lowers the progress value, provided the
\* frame numbers each subprocess reports are non-decreasing
C16_ProgressMonotone ==
    [][NonDecreasing(Reported(seen)) /\ NonDecreasing(Reported(seen'))
         /\ progress' # progress
       => JsLeq(progress, progress')]_vars


\* C20: the chunk parser of the encoder keeps no state from one chunk to the
\* next: whether a chunk produces a write, and of which value, depends on the
\* text of the chunk and the expected total alone, so it is what a parser
\* that has seen no chunk before produces; in particular a chunk that is one
\* token with N > 0 produces a write
C20_EncoderParserStateless ==
    [][ChunkRead("encoding") =>
         LET data == Last(seen')
             fresh == EncodeRender(RegexExec(data, 0).frame, total_frames[1])
         IN  /\ Wrote <=> fresh # None
             /\ Wrote => progress' = fresh[1]
             /\ Len(data) = 1 /\ data[1] > 0 => Wrote]_vars


\* C17: for an output of ffprobe that parses and matches the schema,
\* get_video_info fails with "unable to retrieve resolution from stream with
\* ffprobe" when the list of streams is empty, with "unable to retrieve
\* packets from stream with ffprobe" when there are streams and no packets,
\* and otherwise succeeds with the first stream and the last packet
C17_StreamAndPacket ==
    variant = "progress" /\ probed # None
      /\ probed[1].success /\ probed[1].json_ok /\ probed[1].schema_ok =>
        LET run == probed[1]
        IN  IF run.streams = <<>>
            THEN /\ info = None
                 /\ console_error =
                      <<"unable to retrieve resolution from stream with ffprobe">>
            ELSE IF run.packets = <<>>
            THEN /\ info = None
                 /\ console_error =
                      <<"unable to retrieve packets from stream with ffprobe">>
            ELSE /\ info = Some([stream |-> run.streams[1],
                                 last_packet |-> run.packets[Len(run.packets)]])
                 /\ console_error = <<>>
                 /\ pc = "make_temp_dir"

\* two streams and two packets were reported: the first stream and the last
\* packet were returned
C17_Witness ==
    /\ variant = "progress"
    /\ probed # None
    /\ probed[1].streams = <<Stream(640, "7"), Stream(1280, "300")>>
    /\ probed[1].packets = <<Packet("10.0"), Packet("2.5")>>
    /\ info = Some([stream |-> Stream(640, "7"), last_packet |-> Packet("2.5")])


\* the executor waits for a chunk, or the end, of standard-output
ExecutorWaits ==
    /\ InPipedPhase
    /\ loop = "stdout"
    /\ stdout_pipe = 0
    /\ child.cmd \in alive

\* the subprocess has more to write and every pipe it has to write to is full
ChildBlocked ==
    /\ child.cmd \in alive
    /\ child.out_todo > 0 \/ child.err_todo > 0
    /\ child.out_todo > 0 => stdout_pipe = PipeCap
    /\ child.err_todo > 0 => stderr_pipe = PipeCap

\* C18: reading standard-error only after standard-output has ended never
\* leaves the executor and the subprocess waiting on each other, however
\* much the subprocess writes to standard-error before it closes
\* standard-output (so the executor returns for every subprocess that exits
\* once its output is consumed)
C18_NoMutualWait == ~(ExecutorWaits /\ ChildBlocked)

\* C19: in every run that creates the working directory and ends,
\* clean_up_temp_dir has been called exactly once; it is never called twice
\* nor while a subprocess runs, and the directory exists as long as ffmpeg or
\* the encoder runs
C19_CleanUpOnce ==
    /\ clean_up_calls <= 1
    /\ Exited /\ temp_dir # "none" => clean_up_calls = 1
    /\ clean_up_calls > 0 => alive = {} /\ child = NoChild
    /\ alive \cap {ffmpeg, shell} # {} => temp_dir = "exists"

\* both subprocesses ran and ended, then the directory was cleaned up once
C19_Witness ==
    /\ Exited
    /\ runs["extract"].state = "ended"
    /\ runs["encode"].state = "ended"
    /\ clean_up_calls = 1
    /\ alive = {}


====
